---- MODULE Spec2Model ----
(***************************************************************************)
(* Model of streamlit_app.py: a Streamlit script that executes a notebook  *)
(* once per server process (bootstrap_notebook, memoised by                *)
(* st.cache_resource), takes the compiled graph `app` out of the notebook's *)
(* globals and runs a chat turn per user submission.                        *)
(*                                                                         *)
(* One script run (Streamlit reruns the whole file on every interaction)   *)
(* is one action.  Text is a sequence of string fragments, so that "in",   *)
(* strip().startswith(...) and f-string formatting are computed.           *)
(***************************************************************************)
EXTENDS Integers, Sequences, FiniteSets, TLC

VARIABLES
    nbFile,     \* the notebook document on disk (read by nbformat.read)
    environ,    \* os.environ["REDFIN_CSV_PATH"], or Unset
    adapter,    \* TRUE iff langchain_core.messages could be imported
    cache,      \* st.cache_resource entry of bootstrap_notebook for NB_PATH
    bodyRuns,   \* how many times the body of bootstrap_notebook has run
    messages,   \* st.session_state.messages, per session
    turns,      \* per session: submissions processed (line 83 taken)
    baseRaises, \* per session: turns in which app.invoke raised a non-Exception
    invokes,    \* number of app.invoke calls made so far
    runs,       \* number of script runs so far
    last        \* what the most recent script run did

vars == <<nbFile, environ, adapter, cache, bodyRuns, messages, turns, baseRaises,
          invokes, runs, last>>

-----------------------------------------------------------------------------
(* Bounds of the model *)

MaxCells == 2
MaxRuns == 3
MaxMsgs == 2
MaxReplyTurns == 1

Sessions == {"s1", "s2"}

-----------------------------------------------------------------------------
(* Text helpers: Python's `in`, str.strip, str.startswith on fragment lists *)

Contains(hay, needle) ==
    \E i \in 1..(Len(hay) - Len(needle) + 1) :
        SubSeq(hay, i, i + Len(needle) - 1) = needle

IsSpace(tok) == tok \in {" ", "\n"}

RECURSIVE LStrip(_)
LStrip(t) == IF t # <<>> /\ IsSpace(Head(t)) THEN LStrip(Tail(t)) ELSE t

RECURSIVE RStrip(_)
RStrip(t) ==
    IF t # <<>> /\ IsSpace(t[Len(t)]) THEN RStrip(SubSeq(t, 1, Len(t) - 1)) ELSE t

Strip(t) == RStrip(LStrip(t))

StartsWith(t, tok) == t # <<>> /\ Head(t) = tok

-----------------------------------------------------------------------------
(* Notebook source lines.  A source is a sequence of lines, a line a       *)
(* sequence of fragments; the fragments the script looks for are kept      *)
(* whole ("%", "input(", "file_path =", "redfin.csv", "/content/drive").   *)

LineBlank == <<" ">>
LineMagic == <<"%", "matplotlib inline">>
LineInput == <<"q = ", "input(", "'> ')">>
LineDrive == <<"file_path =", " '", "/content/drive", "/MyDrive/", "redfin.csv", "'">>
LineDriveOther == <<"file_path =", " '", "/content/drive", "/MyDrive/other.csv'">>
LineLocal == <<"file_path =", " 'local/", "redfin.csv", "'">>
LineComment == <<"# uses ", "redfin.csv">>
LineApp == <<"app = workflow.compile()">>
LineRaise == <<"raise RuntimeError('bad cell')">>
LineLoad == <<"df = load(file_path)">>
LineEcho == <<"print('ready')">>
LineImportOs == <<"import os">>
LineEnvAssign ==
    <<"file_path =", " os.environ.get('REDFIN_CSV_PATH', 'data/", "redfin.csv", "')">>

Unset == "<unset>"
DrivePath == "/content/drive/MyDrive/redfin.csv"
DriveOtherPath == "/content/drive/MyDrive/other.csv"
LocalPath == "local/redfin.csv"
FallbackPath == "data/redfin.csv"
EnvPath == "/srv/redfin.csv"
Graph == "<compiled graph>"

\* os.environ.get('REDFIN_CSV_PATH', 'data/redfin.csv')
EnvGet(env) == IF env = Unset THEN FallbackPath ELSE env

\* line 15
DEFAULT_REDFIN(env) == EnvGet(env)

\* lines 20-23: the namespace seed
SeedNamespace(env) ==
    [name |-> "__main__", file_path |-> DEFAULT_REDFIN(env), app |-> Unset,
     df |-> Unset, q |-> Unset]

\* The source text as one fragment list (lines joined by "\n").
RECURSIVE SourceText(_)
SourceText(src) ==
    IF src = <<>> THEN <<>>
    ELSE IF Len(src) = 1 THEN Head(src)
    ELSE Head(src) \o <<"\n">> \o SourceText(Tail(src))

PatchedSource == <<LineImportOs, LineEnvAssign>>

PatchCondition(src) ==
    /\ Contains(SourceText(src), <<"file_path =">>)
    /\ Contains(SourceText(src), <<"redfin.csv">>)
    /\ Contains(SourceText(src), <<"/content/drive">>)

\* A patcher that fires on any one of the three marks.
maybe_patch_any(src) ==
    IF \/ Contains(SourceText(src), <<"file_path =">>)
       \/ Contains(SourceText(src), <<"redfin.csv">>)
       \/ Contains(SourceText(src), <<"/content/drive">>)
    THEN PatchedSource ELSE src

\* A patcher that never rewrites.
maybe_patch_off(src) == src

\* lines 28-34
maybe_patch(src) == IF PatchCondition(src) THEN PatchedSource ELSE src

\* A skip test that forgets the input( check.
SkipCell_magic_only(src) == StartsWith(Strip(SourceText(src)), "%")

\* line 43
SkipCell(src) ==
    \/ StartsWith(Strip(SourceText(src)), "%")
    \/ Contains(SourceText(src), <<"input(">>)

\* What executing one line does to [raised, g, out] (Python's exec, statement
\* by statement; a raise ends the cell).
ExecLine(line, st, env) ==
    IF st.raised THEN st
    ELSE IF line = LineDrive THEN [st EXCEPT !.g.file_path = DrivePath]
    ELSE IF line = LineDriveOther THEN [st EXCEPT !.g.file_path = DriveOtherPath]
    ELSE IF line = LineLocal THEN [st EXCEPT !.g.file_path = LocalPath]
    ELSE IF line = LineEnvAssign THEN [st EXCEPT !.g.file_path = EnvGet(env)]
    ELSE IF line = LineApp THEN [st EXCEPT !.g.app = Graph]
    ELSE IF line = LineLoad THEN [st EXCEPT !.g.df = st.g.file_path]
    ELSE IF line = LineEcho THEN [st EXCEPT !.out = Append(st.out, "ready\n")]
    ELSE IF line = LineInput THEN [st EXCEPT !.raised = TRUE]   \* EOFError: no terminal
    ELSE IF line = LineMagic THEN [st EXCEPT !.raised = TRUE]   \* SyntaxError
    ELSE IF line = LineRaise THEN [st EXCEPT !.raised = TRUE]
    ELSE st     \* blank line, comment, import

RECURSIVE Exec(_, _, _)
Exec(src, st, env) ==
    IF src = <<>> THEN st ELSE Exec(Tail(src), ExecLine(Head(src), st, env), env)

\* lines 38-45: the cell loop; `ran` lists the sources handed to exec.
RECURSIVE RunCells(_, _, _)
RunCells(cells, st, env) ==
    IF cells = <<>> \/ st.raised THEN st
    ELSE LET cell == Head(cells) IN
         IF cell.cell_type # "code" THEN RunCells(Tail(cells), st, env)
         ELSE IF SkipCell(cell.source) THEN RunCells(Tail(cells), st, env)
         ELSE LET code == maybe_patch(cell.source)
                  st1 == Exec(code, [st EXCEPT !.ran = Append(st.ran, code)], env)
              IN RunCells(Tail(cells), st1, env)

\* lines 19-48: the body of bootstrap_notebook (nbformat.read raises on an
\* unreadable file; a raising cell propagates).
BootstrapBody(nb, env) ==
    IF ~nb.readable
    THEN [raised |-> TRUE, g |-> SeedNamespace(env), out |-> <<>>, ran |-> <<>>]
    ELSE RunCells(nb.cells,
                  [raised |-> FALSE, g |-> SeedNamespace(env), out |-> <<>>, ran |-> <<>>],
                  env)

\* line 47
Logs(st) == st.out \o <<"\n">>

NoEntry == [hit |-> FALSE, g |-> SeedNamespace(Unset), logs |-> <<>>]

\* A decorator that does not keep the result.
CacheStore_forget(c, st) == c

\* line 18: what st.cache_resource keeps after a call that ran the body:
\* the result of a call that returned; nothing for a call that raised.
CacheStore(c, st) ==
    IF st.raised THEN c ELSE [hit |-> TRUE, g |-> st.g, logs |-> Logs(st)]

\* lines 18 and 50: one call of the memoised function.
bootstrap_notebook(c, nb, env) ==
    IF c.hit
    THEN [raised |-> FALSE, body |-> FALSE, g |-> c.g, logs |-> c.logs,
          ran |-> <<>>, cache |-> c]
    ELSE LET st == BootstrapBody(nb, env) IN
         [raised |-> st.raised, body |-> TRUE, g |-> st.g, logs |-> Logs(st),
          ran |-> st.ran, cache |-> CacheStore(c, st)]

-----------------------------------------------------------------------------
(* Chat values.  A Python value that may be None is [none, s]; text is a   *)
(* sequence of fragments.                                                  *)

TextX == <<"X">>
TextY == <<"Y">>
TextQ == <<"Q">>
Boom == <<"b", "o", "o", "m">>

PyNone == [none |-> TRUE, s |-> <<>>]
Str(t) == [none |-> FALSE, s |-> t]

\* Python truthiness of None / str
Falsy(v) == v.none \/ v.s = <<>>

\* line 75 (the apostrophe is U+2019 in the source; strings here are ASCII,
\* so the leading emoji of lines 122 and 124 is left out as well)
Greeting == <<"Hi! I'm GRACIE. Ask me about properties, zip codes, CMAs, or NPV.">>
\* line 122
Placeholder == <<"(No content returned by the graph.)">>
\* line 124: the f-string around str(e); BackTick stands for the character
\* U+0060 and the leading warning sign is left out (neither can be written
\* in a string here).
BackTick == "<backtick>"

\* An error reply that does not embed the exception's text.
ErrorReply_generic(text) == <<"Error while running the agent">>

ErrorReply(text) == <<"Error while running the agent: ", BackTick>> \o text \o <<BackTick>>

\* Elements the graph may put in result["messages"]:
\*   obj    - exposes a content attribute (a BaseMessage)
\*   dict   - a mapping, with or without a "content" key
\*   other  - neither (a number, a tuple)
\*   raiser - an object whose content property raises RuntimeError("boom")
Elem(kind, has, c) == [kind |-> kind, has |-> has, c |-> c]

Elems ==
    { Elem("obj", TRUE, Str(TextX)), Elem("obj", TRUE, Str(<<>>)),
      Elem("dict", TRUE, Str(TextY)), Elem("dict", FALSE, PyNone), Elem("other", FALSE, PyNone),
      Elem("raiser", TRUE, PyNone) }

SeqsUpTo(S, n) == UNION {[1..k -> S] : k \in 0..n}

\* What app.invoke may return: a str, a dict (with or without "messages"),
\* or something else.
Result(t, s, has, msgs) == [t |-> t, s |-> s, has |-> has, msgs |-> msgs]

Results ==
    {Result("str", s, FALSE, <<>>) : s \in {<<>>, TextX, TextY}}
    \cup {Result("dict", <<>>, FALSE, <<>>), Result("other", <<>>, FALSE, <<>>)}
    \cup {Result("dict", <<>>, TRUE, ms) : ms \in SeqsUpTo(Elems, MaxMsgs)}

\* What app.invoke may do: return a result, or raise.  cls tells whether
\* the raised object is an instance of Exception ("Exception") or only of
\* BaseException (SystemExit, KeyboardInterrupt, asyncio.CancelledError).
NoResult == Result("other", <<>>, FALSE, <<>>)
Returns(v) == [k |-> "return", v |-> v, cls |-> "-", text |-> <<>>]
Raises(cls, text) == [k |-> "raise", v |-> NoResult, cls |-> cls, text |-> text]

Behaviours ==
    {Returns(v) : v \in Results}
    \cup {Raises(cls, Boom) : cls \in {"Exception", "BaseException"}}

NoBehaviour == Returns(NoResult)

\* One behaviour of each kind, for the runs that follow one another.
ChatBehaviours ==
    { Returns(Result("str", TextY, FALSE, <<>>)),
      Returns(Result("str", <<>>, FALSE, <<>>)),
      Returns(Result("dict", <<>>, FALSE, <<>>)),
      Returns(Result("dict", <<>>, TRUE, <<Elem("dict", TRUE, Str(TextY)),
                                           Elem("obj", TRUE, Str(TextX))>>)),
      Returns(Result("dict", <<>>, TRUE, <<Elem("raiser", TRUE, PyNone)>>)),
      Raises("Exception", Boom),
      Raises("BaseException", Boom) }

\* lines 112-117: the content of the last message; hasattr() lets any
\* exception other than AttributeError through.
LastContent(lastm) ==
    IF lastm.kind = "raiser" THEN [raised |-> TRUE, err |-> Boom, val |-> PyNone]
    ELSE IF lastm.kind = "obj" THEN [raised |-> FALSE, err |-> <<>>, val |-> lastm.c]
    ELSE IF lastm.kind = "dict"
         THEN [raised |-> FALSE, err |-> <<>>,
               val |-> IF lastm.has THEN lastm.c ELSE PyNone]
    ELSE [raised |-> FALSE, err |-> <<>>, val |-> PyNone]

\* An extraction that reads the first message instead of the last.
FromMessages_first(result) ==
    IF result.t = "dict" /\ result.has /\ result.msgs # <<>>
    THEN LastContent(result.msgs[1])
    ELSE [raised |-> FALSE, err |-> <<>>, val |-> PyNone]

\* lines 107-117
FromMessages(result) ==
    IF result.t = "dict" /\ result.has /\ result.msgs # <<>>
    THEN LastContent(result.msgs[Len(result.msgs)])
    ELSE [raised |-> FALSE, err |-> <<>>, val |-> PyNone]

\* A fallback that ignores a returned str.
StrFallback_off(val, result) == val

\* lines 119-120
StrFallback(val, result) ==
    IF Falsy(val) /\ result.t = "str" THEN Str(result.s) ELSE val

\* A reply without the default for an empty text.
OrPlaceholder_none(val) == val.s

\* line 122
OrPlaceholder(val) == IF Falsy(val) THEN Placeholder ELSE val.s

\* A handler that catches nothing.
Catches_nothing(cls) == FALSE

\* line 123: `except Exception` catches instances of Exception only
Catches(cls) == cls = "Exception"

\* lines 102-124: the try block.  escaped: the exception left the block;
\* caught: the except clause produced the text.
TryInvoke(beh) ==
    IF beh.k = "raise"
    THEN IF Catches(beh.cls)
         THEN [escaped |-> FALSE, caught |-> TRUE, text |-> ErrorReply(beh.text)]
         ELSE [escaped |-> TRUE, caught |-> FALSE, text |-> <<>>]
    ELSE LET x == FromMessages(beh.v) IN
         IF x.raised
         THEN IF Catches("Exception")
              THEN [escaped |-> FALSE, caught |-> TRUE, text |-> ErrorReply(x.err)]
              ELSE [escaped |-> TRUE, caught |-> FALSE, text |-> <<>>]
         ELSE [escaped |-> FALSE, caught |-> FALSE,
               text |-> OrPlaceholder(StrFallback(x.val, beh.v))]

Msg(role, content) == [role |-> role, content |-> content]

\* The outbound list's entries: cls is the Python class of the entry; a
\* typed message carries no role key.
Out(cls, role, content) == [cls |-> cls, role |-> role, content |-> content]

RECURSIVE Typed(_)
\* lines 92-96
Typed(h) ==
    IF h = <<>> THEN <<>>
    ELSE LET m == Head(h) IN
         IF m.role = "user"
         THEN <<Out("HumanMessage", "-", m.content)>> \o Typed(Tail(h))
         ELSE IF m.role = "assistant"
         THEN <<Out("AIMessage", "-", m.content)>> \o Typed(Tail(h))
         ELSE Typed(Tail(h))

\* line 99
Plain(h) == [i \in 1..Len(h) |-> Out("dict", h[i].role, h[i].content)]

RECURSIVE TypedUsersOnly(_)
TypedUsersOnly(h) ==
    IF h = <<>> THEN <<>>
    ELSE IF Head(h).role = "user"
         THEN <<Out("HumanMessage", "-", Head(h).content)>> \o TypedUsersOnly(Tail(h))
         ELSE TypedUsersOnly(Tail(h))

\* A builder whose typed path drops the assistant messages.
lc_messages_users_only(h, typed) == IF typed THEN TypedUsersOnly(h) ELSE Plain(h)

\* lines 90-99
lc_messages(h, typed) == IF typed THEN Typed(h) ELSE Plain(h)

-----------------------------------------------------------------------------
(* State *)

NoHistory == [present |-> FALSE, list |-> <<>>]

NoBoot == [raised |-> FALSE, body |-> FALSE, g |-> SeedNamespace(Unset),
           logs |-> <<>>, ran |-> <<>>, cache |-> NoEntry]

NoRun == [session |-> "-", kind |-> "none", user_input |-> <<>>,
          beh |-> NoBehaviour, sent |-> <<>>, boot |-> NoBoot,
          caught |-> FALSE, reply |-> <<>>]

\* The representative code and markdown cells notebooks are built from.
Cell(type, source) == [cell_type |-> type, source |-> source]

CellPool ==
    { Cell("markdown", <<LineDrive>>),
      Cell("code", <<>>),
      Cell("code", <<LineMagic>>),
      Cell("code", <<LineBlank, LineMagic, LineApp>>),
      Cell("code", <<LineInput, LineLocal>>),
      Cell("code", <<LineDrive, LineInput>>),
      Cell("code", <<LineDrive>>),
      Cell("code", <<LineDrive, LineApp>>),
      Cell("code", <<LineDriveOther, LineComment>>),
      Cell("code", <<LineDriveOther>>),
      Cell("code", <<LineLocal>>),
      Cell("code", <<LineApp>>),
      Cell("code", <<LineRaise>>),
      Cell("code", <<LineLoad>>),
      Cell("code", <<LineEcho>>) }

Notebook(readable, cells) == [readable |-> readable, cells |-> cells]

Notebooks ==
    {Notebook(TRUE, cs) : cs \in SeqsUpTo(CellPool, MaxCells)}
    \cup {Notebook(FALSE, <<>>)}

GoodNotebook ==
    Notebook(TRUE, <<Cell("code", <<LineDrive>>), Cell("code", <<LineLoad, LineApp>>)>>)

\* The notebooks the chat specification starts from: one that compiles the
\* graph, one that never defines app, one whose cell raises, one unreadable.
ChatNotebooks ==
    { GoodNotebook,
      Notebook(TRUE, <<Cell("code", <<LineLoad>>)>>),
      Notebook(TRUE, <<Cell("code", <<LineApp>>), Cell("code", <<LineRaise>>)>>),
      Notebook(FALSE, <<>>) }

InitCommon ==
    /\ adapter \in BOOLEAN
    /\ cache = NoEntry
    /\ bodyRuns = 0
    /\ messages = [s \in Sessions |-> NoHistory]
    /\ turns = [s \in Sessions |-> 0]
    /\ baseRaises = [s \in Sessions |-> 0]
    /\ invokes = 0
    /\ runs = 0
    /\ last = NoRun

Init == nbFile \in ChatNotebooks /\ environ = Unset /\ InitCommon

InitBoot == nbFile \in Notebooks /\ environ \in {Unset, EnvPath} /\ InitCommon

\* A guard that never stops the run.
AppMissing_never(g) == FALSE

\* lines 53, 67: app = g.get("app", None); app is None
AppMissing(g) == g.app = Unset

\* lines 1-129: one run of the script for session s.  user_input is what
\* st.chat_input returned (empty: nothing submitted); beh is what app.invoke
\* does if it is called.
ScriptRun(s, user_input, beh) ==
    /\ runs < MaxRuns
    /\ runs' = runs + 1
    /\ UNCHANGED <<nbFile, environ, adapter>>
    /\ LET boot == bootstrap_notebook(cache, nbFile, environ)      \* line 50
           run0 == [NoRun EXCEPT !.session = s, !.boot = boot, !.user_input = user_input]
       IN
       /\ cache' = boot.cache
       /\ bodyRuns' = IF boot.body THEN bodyRuns + 1 ELSE bodyRuns
       /\ IF boot.raised
          THEN \* line 50 raised: the run ends there
               /\ last' = [run0 EXCEPT !.kind = "bootfail"]
               /\ UNCHANGED <<messages, turns, baseRaises, invokes>>
          ELSE IF AppMissing(boot.g)
          THEN \* lines 53, 67-69: app is None, st.stop()
               /\ last' = [run0 EXCEPT !.kind = "noapp"]
               /\ UNCHANGED <<messages, turns, baseRaises, invokes>>
          ELSE LET h0 == IF messages[s].present                  \* lines 72-75
                         THEN messages[s].list
                         ELSE <<Msg("assistant", Greeting)>>
               IN
               IF user_input = <<>>
               THEN \* line 83 not taken
                    /\ messages' = [messages EXCEPT ![s] = [present |-> TRUE, list |-> h0]]
                    /\ last' = [run0 EXCEPT !.kind = "idle"]
                    /\ UNCHANGED <<turns, baseRaises, invokes>>
               ELSE LET h1 == Append(h0, Msg("user", user_input))  \* line 85
                        sent == lc_messages(h1, adapter)           \* lines 90-99
                        r == TryInvoke(beh)                        \* lines 102-124
                        run1 == [run0 EXCEPT !.beh = beh,
                                             !.sent = sent, !.caught = r.caught,
                                             !.reply = r.text]
                    IN
                    /\ turns' = [turns EXCEPT ![s] = @ + 1]
                    /\ invokes' = invokes + 1
                    /\ baseRaises' = [baseRaises EXCEPT
                          ![s] = IF beh.k = "raise" /\ beh.cls # "Exception"
                                 THEN @ + 1 ELSE @]
                    /\ IF r.escaped
                       THEN \* the exception ends the run after line 85
                            /\ messages' = [messages EXCEPT
                                              ![s] = [present |-> TRUE, list |-> h1]]
                            /\ last' = [run1 EXCEPT !.kind = "escaped"]
                       ELSE \* line 129
                            /\ messages' = [messages EXCEPT
                                   ![s] = [present |-> TRUE,
                                           list |-> Append(h1, Msg("assistant", r.text))]]
                            /\ last' = [run1 EXCEPT !.kind = "turn"]

\* A run with nothing submitted (page load, widget interaction).
Rerun(s) == ScriptRun(s, <<>>, NoBehaviour)

\* A run in which the user submitted text.
Submit(s, text, beh) == text # <<>> /\ ScriptRun(s, text, beh)

Inputs == {TextQ}

Next ==
    \/ \E s \in Sessions : Rerun(s)
    \/ \E s \in Sessions, text \in Inputs, beh \in ChatBehaviours : Submit(s, text, beh)

\* The chat: any notebook of ChatNotebooks, reruns and submissions.
Spec == Init /\ [][Next]_vars

NextBoot == \E s \in Sessions : Rerun(s)

\* The bootstrap: every notebook of up to MaxCells cells, rerun after rerun.
SpecBoot == InitBoot /\ [][NextBoot]_vars

InitReply == nbFile = GoodNotebook /\ environ = Unset /\ InitCommon

NextReply ==
    \E s \in Sessions, text \in Inputs, beh \in Behaviours :
        invokes < MaxReplyTurns /\ Submit(s, text, beh)

\* The reply extraction: every result shape of Behaviours, one submission.
SpecReply == InitReply /\ [][NextReply]_vars

-----------------------------------------------------------------------------
(* Claims *)

Hist(s) == messages[s].list

GreetingMsg == Msg("assistant", Greeting)

\* greeting first, then user / assistant alternating
Paired(h) ==
    /\ h # <<>>
    /\ h[1] = GreetingMsg
    /\ \A i \in 2..Len(h) : h[i].role = IF i % 2 = 0 THEN "user" ELSE "assistant"

ExtractionRaises(beh) ==
    /\ beh.k = "return" /\ beh.v.t = "dict" /\ beh.v.has /\ beh.v.msgs # <<>>
    /\ beh.v.msgs[Len(beh.v.msgs)].kind = "raiser"

Raising(beh) == beh.k = "raise" \/ ExtractionRaises(beh)

RaisedText(beh) == IF beh.k = "raise" THEN beh.text ELSE Boom

RaisedException(beh) ==
    \/ beh.k = "raise" /\ beh.cls = "Exception"
    \/ ExtractionRaises(beh)

\* The history session s has at the start of a run's chat logic.
Before(s) == IF messages[s].present THEN Hist(s) ELSE <<GreetingMsg>>

\* The step is a submission in session s.
SubmitStep(s) == turns'[s] = turns[s] + 1

\* The turn kept what was there, appended the user message and then an
\* assistant message that embeds the raised text; no other session changed.
ErrorTurnEffect(s) ==
    LET after == messages'[s].list IN
    /\ Len(after) = Len(Before(s)) + 2
    /\ SubSeq(after, 1, Len(Before(s))) = Before(s)
    /\ after[Len(after) - 1] = Msg("user", last'.user_input)
    /\ after[Len(after)].role = "assistant"
    /\ Contains(after[Len(after)].content, RaisedText(last'.beh))
    /\ \A o \in Sessions \ {s} : messages'[o] = messages[o]

\* A submission that follows an error turn of the same session, and whose
\* invocation returns, is answered like any other.
NormalAfterError(s) ==
    (last.session = s /\ last.kind = "turn" /\ last.caught /\ ~Raising(last'.beh))
        => /\ last'.kind = "turn" /\ ~last'.caught
           /\ messages'[s].list =
                  Hist(s) \o <<Msg("user", last'.user_input),
                               Msg("assistant", last'.reply)>>

C4_FatalStop ==
    [][(runs' = runs + 1 /\ (last'.boot.raised \/ last'.boot.g.app = Unset)) =>
          /\ messages' = messages
          /\ turns' = turns
          /\ invokes' = invokes
          /\ last'.kind \in {"bootfail", "noapp"}
          /\ last'.sent = <<>>]_vars

\* Such a run in which the user had submitted text: nothing was created.
C4_Witness ==
    /\ last.kind = "noapp" /\ last.user_input # <<>>
    /\ ~last.boot.raised /\ last.boot.g.app = Unset
    /\ \A s \in Sessions : ~messages[s].present
    /\ invokes = 0

\* The role an outbound entry carries: by class for a typed message, by its
\* role key for a plain mapping.
RoleOf(m) ==
    IF m.cls = "HumanMessage" THEN "user"
    ELSE IF m.cls = "AIMessage" THEN "assistant"
    ELSE m.role

RoleContent(ms) == [i \in 1..Len(ms) |-> Msg(RoleOf(ms[i]), ms[i].content)]

\* The history as it was when app.invoke was called in the last run.
SentFrom ==
    IF last.kind = "turn"
    THEN SubSeq(Hist(last.session), 1, Len(Hist(last.session)) - 1)
    ELSE Hist(last.session)

\* C10: the list passed to the graph has one entry per history entry, the
\* new user message last, in order and with the same role and content, on
\* the typed path and on the plain-mapping path, which therefore agree.
C10_Outbound ==
    last.kind \in {"turn", "escaped"} =>
        /\ RoleContent(last.sent) = SentFrom
        /\ SentFrom[Len(SentFrom)] = Msg("user", last.user_input)
        /\ \A i \in 1..Len(last.sent) :
              IF adapter THEN last.sent[i].cls \in {"HumanMessage", "AIMessage"}
              ELSE last.sent[i].cls = "dict"
        /\ RoleContent(lc_messages(SentFrom, TRUE))
              = RoleContent(lc_messages(SentFrom, FALSE))

\* A second turn on the typed path: greeting, user, assistant, user sent.
C10_Witness ==
    /\ adapter /\ last.kind = "turn" /\ Len(last.sent) >= 4
    /\ last.sent[3].cls = "AIMessage"

\* The last run was a submission whose invocation returned v.
Returned(v) == last.kind \in {"turn", "escaped"} /\ last.beh = Returns(v)

\* The last entry of the history of the session the last run served.
Appended == Hist(last.session)[Len(Hist(last.session))]

\* The result is a mapping whose "messages" is non-empty and whose last
\* element exposes a content attribute or is a mapping with a "content" key.
HasLastContent(v) ==
    /\ v.t = "dict" /\ v.has /\ v.msgs # <<>>
    /\ \/ v.msgs[Len(v.msgs)].kind = "obj"
       \/ v.msgs[Len(v.msgs)].kind = "dict" /\ v.msgs[Len(v.msgs)].has

ClaimedContent(v) == v.msgs[Len(v.msgs)].c

\* C5 as stated: the appended assistant message has exactly the content of
\* the last element of result["messages"].
C5_Original ==
    \A v \in Results :
        (Returned(v) /\ HasLastContent(v)) =>
            /\ last.kind = "turn"
            /\ ~ClaimedContent(v).none
            /\ Appended = Msg("assistant", ClaimedContent(v).s)

\* C5 (amended): the appended assistant message has exactly the content of
\* the last element when that content is a non-empty string; when it is
\* empty or None, the fixed placeholder is appended instead.
C5_LastContent ==
    \A v \in Results :
        (Returned(v) /\ HasLastContent(v)) =>
            /\ last.kind = "turn" /\ ~last.caught
            /\ Appended = Msg("assistant",
                              IF ClaimedContent(v).none \/ ClaimedContent(v).s = <<>>
                              THEN Placeholder
                              ELSE ClaimedContent(v).s)

\* Two messages with different contents: the reply is the last one's.
C5_Witness ==
    /\ Returned(Result("dict", <<>>, TRUE,
                       <<Elem("dict", TRUE, Str(TextY)), Elem("obj", TRUE, Str(TextX))>>))
    /\ Appended = Msg("assistant", TextX)

\* C6 as stated: a returned string is the appended content, verbatim, for
\* every string.
C6_Original ==
    \A v \in Results :
        (Returned(v) /\ v.t = "str") =>
            last.kind = "turn" /\ Appended = Msg("assistant", v.s)

\* C6 (amended): a returned non-empty string is the appended content,
\* verbatim; for the empty string the fixed placeholder is appended.
C6_StringReply ==
    \A v \in Results :
        (Returned(v) /\ v.t = "str") =>
            /\ last.kind = "turn" /\ ~last.caught
            /\ Appended = Msg("assistant", IF v.s = <<>> THEN Placeholder ELSE v.s)

\* The graph returned the string "Y" and "Y" was appended.
C6_Witness ==
    /\ Returned(Result("str", TextY, FALSE, <<>>))
    /\ Appended = Msg("assistant", TextY)

MagicOrInput(cell) ==
    /\ cell.cell_type = "code"
    /\ \/ (Strip(SourceText(cell.source)) # <<>>
            /\ Strip(SourceText(cell.source))[1] = "%")
       \/ \E i \in 1..Len(SourceText(cell.source)) : SourceText(cell.source)[i] = "input("

KeepCell(cell) == ~MagicOrInput(cell)

\* The notebook without the cells the claim says are skipped.
WithoutSkipped(nb) == Notebook(nb.readable, SelectSeq(nb.cells, KeepCell))

ExecutedCell(cell) == cell.cell_type = "code" /\ ~MagicOrInput(cell)

\* The code cells that are left, in document order.
Remaining(nb) == SelectSeq(nb.cells, ExecutedCell)

\* C8: a run of the body treats every magic / input cell as absent (same
\* outcome, namespace and executed sources as for the notebook without
\* them), and executes the other code cells in document order: each
\* executed source is the (possibly patched) source of the next remaining
\* code cell, up to the end or to the cell that raises.
C8_SkippedCells ==
    last.boot.body =>
        LET ref == BootstrapBody(WithoutSkipped(nbFile), environ)
            rest == Remaining(nbFile)
            ran == last.boot.ran
        IN /\ last.boot.raised = ref.raised
           /\ last.boot.g = ref.g
           /\ ran = ref.ran
           /\ Len(ran) <= Len(rest)
           /\ \A k \in 1..Len(ran) : ran[k] = maybe_patch(rest[k].source)
           /\ (nbFile.readable /\ ~last.boot.raised) => Len(ran) = Len(rest)

\* A cell with input( that would set file_path is skipped; the next cell is
\* executed and still sees the seed.
C8_Witness ==
    /\ nbFile.cells = <<Cell("code", <<LineInput, LineLocal>>), Cell("code", <<LineLoad>>)>>
    /\ last.boot.body /\ ~last.boot.raised
    /\ last.boot.ran = <<(<<LineLoad>>)>>
    /\ cache.hit /\ cache.g.df = EnvGet(environ) /\ cache.g.q = Unset

\* The three patch conditions, as the claim words them.
ThreeMarks(cell) ==
    /\ \E i \in 1..Len(SourceText(cell.source)) : SourceText(cell.source)[i] = "file_path ="
    /\ \E i \in 1..Len(SourceText(cell.source)) : SourceText(cell.source)[i] = "redfin.csv"
    /\ \E i \in 1..Len(SourceText(cell.source)) : SourceText(cell.source)[i] = "/content/drive"

\* An executed cell that assigns file_path and is not rewritten.
Reassigns(cell) ==
    /\ ExecutedCell(cell) /\ ~ThreeMarks(cell)
    /\ \E i \in 1..Len(SourceText(cell.source)) : SourceText(cell.source)[i] = "file_path ="

InRange(x, sq) == \E k \in 1..Len(sq) : sq[k] = x

\* C9 as stated: if an executed code cell meets the three conditions, the
\* replacement is what was executed and after bootstrap file_path holds the
\* environment-driven value.
C9_Original ==
    (last.boot.body /\ ~last.boot.raised) =>
        \A i \in 1..Len(nbFile.cells) :
            (ExecutedCell(nbFile.cells[i]) /\ ThreeMarks(nbFile.cells[i])) =>
                /\ InRange(PatchedSource, last.boot.ran)
                /\ ~InRange(nbFile.cells[i].source, last.boot.ran)
                /\ last.boot.g.file_path = EnvGet(environ)

\* C9 (amended): for an executed code cell that meets the three conditions,
\* the source executed is the two-line replacement and not the original,
\* and once it has run file_path holds the environment-driven value
\* (REDFIN_CSV_PATH, default data/redfin.csv), the value of the seed, not
\* the hardcoded path; it still holds it after bootstrap unless a later
\* executed cell assigns file_path again.
C9_Patched ==
    (last.boot.body /\ ~last.boot.raised) =>
        \A i \in 1..Len(nbFile.cells) :
            (ExecutedCell(nbFile.cells[i]) /\ ThreeMarks(nbFile.cells[i])) =>
                LET pre == BootstrapBody(Notebook(TRUE, SubSeq(nbFile.cells, 1, i)), environ)
                    k == Len(Remaining(Notebook(TRUE, SubSeq(nbFile.cells, 1, i))))
                IN /\ last.boot.ran[k] = PatchedSource
                   /\ ~InRange(nbFile.cells[i].source, last.boot.ran)
                   /\ ~pre.raised
                   /\ pre.g.file_path = EnvGet(environ)
                   /\ pre.g.file_path = SeedNamespace(environ).file_path
                   /\ pre.g.file_path # DrivePath
                   /\ (\A j \in (i + 1)..Len(nbFile.cells) : ~Reassigns(nbFile.cells[j]))
                         => last.boot.g.file_path = EnvGet(environ)

\* REDFIN_CSV_PATH is set; the drive cell was rewritten and the loader that
\* follows read the environment's path.
C9_Witness ==
    /\ environ = EnvPath
    /\ nbFile.cells = <<Cell("code", <<LineDrive>>), Cell("code", <<LineLoad>>)>>
    /\ last.boot.body /\ ~last.boot.raised
    /\ last.boot.ran[1] = PatchedSource
    /\ cache.hit /\ cache.g.file_path = EnvPath /\ cache.g.df = EnvPath

====
